---- MODULE Spec2Model ----
(***************************************************************************)
(* Transaction orchestration and retry engine of the auto-trader.         *)
(*                                                                         *)
(* The model covers the durable ledger (src/src/db.ts), the inbound        *)
(* monitor, the workflow, the retry sweep and the scheduler of the V1      *)
(* orchestration (src/src/auto-trader.ts) and of the V2 orchestration      *)
(* (src/unnamed/part_007).                                                 *)
(*                                                                         *)
(* A "chain" is one asynchronous activation of the scheduler body: the     *)
(* start-up pass of startMonitoring or one firing of the setInterval       *)
(* callback. setInterval does not wait for the promise of an earlier       *)
(* callback, so chains interleave at their await points. Every action      *)
(* below is the code between two awaits that touch shared state (the       *)
(* ledger, processedSignatures) or the network.                            *)
(***************************************************************************)
EXTENDS Integers, Sequences, FiniteSets, TLC

\* ------------------------------------------------------------------ bounds
MaxClock == 1       \* clock steps (of RETRY_BASE_DELAY_MS) the model advances
MaxMarks == 6       \* markForRetry calls per record in LedgerSpec
MaxPayloads == 4    \* payloads given to submitSequentialTransactions
MaxRetries == 3     \* the largest maxRetries given to submitWithExponentialBackoff
MaxStarts == 3      \* calls of startMonitoring issued in MonitorSpec
MaxPolls == 2       \* timer callbacks counted after a stopMonitoring
MaxFetches == 2     \* evaluations of one transaction that are counted

\* ------------------------------------------------------- program constants
RETRY_BASE_DELAY_MS == 60000
RETRY_MAX_DELAY_MS == 300000
MAX_RETRY_COUNT == 5
RETRY_BATCH_LIMIT == 5
MIN_SOL_LAMPORTS == 10000000
MIN_SOL_LAMPORTS_V2 == 100000000
POOL_CREATION_RESERVE == 30000000
SWAP_FEE_RESERVE == 5000000
MIN_AVAILABLE_FOR_SWAPS == 1000000

\* submitWithExponentialBackoff's default initialDelayMs and maxDelayMs.
DEFAULT_INITIAL_DELAY_MS == 500
DEFAULT_MAX_DELAY_MS == 30000

\* SQL NULL / undefined, for columns and locals that hold numbers otherwise.
NULL == -1

\* The system model (Spec) follows one inbound transfer through two scheduler
\* activations in flight together (the start-up pass and an interval callback,
\* or two interval callbacks); BatchSpec follows two transfers through
\* activations that do not overlap; LedgerSpec drives the ledger with two
\* records.
Sigs == {1, 2}
Chains == {1, 2}
LedgerSigs == {1, 2}

\* The variant's minimum: MIN_SOL_LAMPORTS (V1), MIN_SOL_LAMPORTS_V2 (V2).
MinLamports(v) == IF v = "V1" THEN MIN_SOL_LAMPORTS ELSE MIN_SOL_LAMPORTS_V2

\* A test that the balance change exceeds the minimum (> for >=).
ExceedsMinimum(v, change) == change > MinLamports(v)

\* if (balanceChange >= MIN_SOL_LAMPORTS)
ReachesMinimum(v, change) == change >= MinLamports(v)

\* What getTransaction shows of one transaction of the history: the balance
\* change of the watched address (NULL when none can be computed) and whether
\* another account paid (a sender is found).
Transfer(sig, change, sender) ==
  [ signature |-> sig, balanceChange |-> change, sender |-> sender ]

\* getSignaturesForAddress(wallet, {limit: 20}): the history, newest first.
\* In Spec it holds one qualifying transfer.
Feed(v) == << Transfer(1, MinLamports(v), TRUE) >>

Signatures(f) == [i \in DOMAIN f |-> f[i].signature]

TxOf(f, sig) == f[CHOOSE i \in DOMAIN f : f[i].signature = sig]

\* The currentStep enum of the schema, in its declared order.
StepOrder ==
  << "check_pool", "swap_proof", "swap_trending", "swap_rfreestacc",
     "swap_leading", "add_liquidity", "burn_tokens", "transfer_lp",
     "create_pool", "lock_lp", "transfer_nft", "done" >>

StepIndex(step) == CHOOSE i \in DOMAIN StepOrder : StepOrder[i] = step

Min(a, b) == IF a <= b THEN a ELSE b

VARIABLES
  variant,              \* "V1" (auto-trader.ts) or "V2" (auto-trader-v2)
  feed,                 \* the watched address's transaction history
  dbAvailable,          \* getDb() returns a handle (DATABASE_URL is set)
  ledger,               \* the processed_incoming table: a sequence of rows
  now,                  \* Date.now(), in ms
  processedSignatures,  \* the in-memory de-duplication set
  chain,                \* per activation: position and locals
  emitted,              \* per signature: batches that emitted it, this lifetime
  handed,               \* signatures whose insert returned normally in a workflow run
  markCalls,            \* per signature: markForRetry calls made in LedgerSpec
  submit,               \* the call of submitSequentialTransactions in SubmitSpec
  backoff,              \* the call of submitWithExponentialBackoff in BackoffSpec
  monitoring,           \* startMonitoring / stopMonitoring and their timers in MonitorSpec
  fetched               \* per signature: times a pass fetched and evaluated its transaction, this lifetime (counted up to MaxFetches)

vars == << variant, feed, dbAvailable, ledger, now, processedSignatures, chain,
           emitted, handed, markCalls, submit, backoff, monitoring, fetched >>

\* ------------------------------------------------------------------ ledger

\* tx.sender of the event of transfer sig: addresses are named after the
\* transfer they paid.
SenderOf(sig) == sig

\* tx.amount of the event of transfer sig: the balance change the history
\* shows for it (the variant's minimum for a record of no listed transfer).
AmountOf(sig) ==
  IF \E i \in DOMAIN feed : feed[i].signature = sig
    THEN TxOf(feed, sig).balanceChange
    ELSE MinLamports(variant)

\* A markForRetry that removes the record instead of updating it.
markAndPurge(db, l, sig, t) ==
  IF ~db THEN l ELSE SelectSeq(l, LAMBDA row : row.incomingSignature # sig)

\* A row as insertProcessedIncoming creates it: the schema's defaults.
NewRow(sig, t) ==
  [ incomingSignature |-> sig,
    senderAddress |-> SenderOf(sig),
    amountLamports |-> AmountOf(sig),
    status |-> "processing",
    currentStep |-> "check_pool",
    retryCount |-> 0,
    proofSwapSignature |-> FALSE,
    trendingSwapSignature |-> FALSE,
    createdAt |-> t,
    completedAt |-> FALSE,
    nextRetryAt |-> NULL ]

RowsOf(l, sig) == { i \in DOMAIN l : l[i].incomingSignature = sig }

\* select ... where incomingSignature = sig limit 1 (callers test HasRow first)
HasRow(db, l, sig) == db /\ RowsOf(l, sig) # {}

getProcessedIncoming(l, sig) ==
  l[CHOOSE i \in RowsOf(l, sig) : \A j \in RowsOf(l, sig) : i <= j]

isTransactionProcessed(db, l, sig) == db /\ RowsOf(l, sig) # {}

\* An insert that passes a duplicate over in silence (INSERT IGNORE).
insertOrIgnore(db, l, sig, t) ==
  IF ~db \/ RowsOf(l, sig) # {}
    THEN [threw |-> FALSE, ledger |-> l]
    ELSE [threw |-> FALSE, ledger |-> Append(l, NewRow(sig, t))]

\* An insert into a table without the unique index on incomingSignature.
insertWithoutUnique(db, l, sig, t) ==
  IF ~db THEN [threw |-> FALSE, ledger |-> l]
  ELSE [threw |-> FALSE, ledger |-> Append(l, NewRow(sig, t))]

\* An insert that throws when there is no store.
insertOrThrow(db, l, sig, t) ==
  IF ~db \/ RowsOf(l, sig) # {} THEN [threw |-> TRUE, ledger |-> l]
  ELSE [threw |-> FALSE, ledger |-> Append(l, NewRow(sig, t))]

\* insert ... values(record): returns silently without a store; the unique
\* index on incomingSignature rejects a duplicate, and the rejection is thrown.
insertProcessedIncoming(db, l, sig, t) ==
  IF ~db THEN [threw |-> FALSE, ledger |-> l]
  ELSE IF RowsOf(l, sig) # {} THEN [threw |-> TRUE, ledger |-> l]
  ELSE [threw |-> FALSE, ledger |-> Append(l, NewRow(sig, t))]

Merge(row, updates) ==
  [f \in DOMAIN row |-> IF f \in DOMAIN updates THEN updates[f] ELSE row[f]]

\* update ... set(updates) where incomingSignature = sig
updateProcessedIncoming(db, l, sig, updates) ==
  IF ~db THEN l
  ELSE [i \in DOMAIN l |->
          IF l[i].incomingSignature = sig THEN Merge(l[i], updates) ELSE l[i]]

\* A linear delay with no ceiling.
RetryDelayUncapped(newRetryCount) == newRetryCount * RETRY_BASE_DELAY_MS

\* Math.min(newRetryCount * 60000, 300000)
RetryDelay(newRetryCount) ==
  Min(newRetryCount * RETRY_BASE_DELAY_MS, RETRY_MAX_DELAY_MS)

\* A terminal test that is one call late (> for >=).
RetryStatusOneLate(newRetryCount) ==
  IF newRetryCount > MAX_RETRY_COUNT THEN "failed" ELSE "processing"

\* newRetryCount >= 5 ? 'failed' : 'processing'
RetryStatus(newRetryCount) ==
  IF newRetryCount >= MAX_RETRY_COUNT THEN "failed" ELSE "processing"

markForRetry(db, l, sig, t) ==
  IF ~HasRow(db, l, sig) THEN l
  ELSE LET record == getProcessedIncoming(l, sig)
           newRetryCount == record.retryCount + 1 IN
       [i \in DOMAIN l |->
          IF l[i].incomingSignature = sig
            THEN Merge(l[i], [ status |-> RetryStatus(newRetryCount),
                               retryCount |-> newRetryCount,
                               nextRetryAt |-> t + RetryDelay(newRetryCount) ])
            ELSE l[i]]

\* A filter on the status alone, whatever nextRetryAt holds.
AnyProcessing(row, t) == row.status = "processing"

IsDue(row, t) ==
  /\ row.status = "processing"
  /\ (row.nextRetryAt = NULL \/ row.nextRetryAt <= t)

\* order by createdAt desc: the newest record first.
RECURSIVE SortByCreatedAtDesc(_, _)
SortByCreatedAtDesc(l, idx) ==
  IF idx = {} THEN << >>
  ELSE LET first == CHOOSE i \in idx :
                      \A j \in idx :
                        \/ l[i].createdAt > l[j].createdAt
                        \/ (l[i].createdAt = l[j].createdAt /\ i >= j)
       IN << l[first] >> \o SortByCreatedAtDesc(l, idx \ {first})

\* order by createdAt asc (rows of one createdAt in insertion order)
RECURSIVE SortByCreatedAt(_, _)
SortByCreatedAt(l, idx) ==
  IF idx = {} THEN << >>
  ELSE LET first == CHOOSE i \in idx :
                      \A j \in idx :
                        \/ l[i].createdAt < l[j].createdAt
                        \/ (l[i].createdAt = l[j].createdAt /\ i <= j)
       IN << l[first] >> \o SortByCreatedAt(l, idx \ {first})

Take(s, n) == SubSeq(s, 1, Min(n, Len(s)))

getTransactionsForRetry(db, l, t, limit) ==
  IF ~db THEN << >>
  ELSE Take(SortByCreatedAt(l, { i \in DOMAIN l : IsDue(l[i], t) }), limit)


\* ------------------------------------------------- submission with backoff
\* submitWithExponentialBackoff(signedTransaction, maxRetries) of nonce.ts.
\* Error texts are sequences of characters, so that toLowerCase() and
\* includes() are computed on them as the code computes them.

UpperCase ==
  << "A", "B", "C", "D", "E", "F", "G", "H", "I", "J", "K", "L", "M", "N",
     "O", "P", "Q", "R", "S", "T", "U", "V", "W", "X", "Y", "Z" >>

LowerCase ==
  << "a", "b", "c", "d", "e", "f", "g", "h", "i", "j", "k", "l", "m", "n",
     "o", "p", "q", "r", "s", "t", "u", "v", "w", "x", "y", "z" >>

\* String.prototype.toLowerCase()
ToLowerCase(text) ==
  [i \in DOMAIN text |->
     IF \E k \in DOMAIN UpperCase : UpperCase[k] = text[i]
       THEN LowerCase[CHOOSE k \in DOMAIN UpperCase : UpperCase[k] = text[i]]
       ELSE text[i]]

\* String.prototype.includes(pattern)
Includes(text, pattern) ==
  \E i \in 0 .. (Len(text) - Len(pattern)) :
    SubSeq(text, i + 1, i + Len(pattern)) = pattern

\* null, or the empty string: both are falsy under `lastError || ...`.
NoText == << >>

\* The string literals of the function.

\* 'insufficient'
Insufficient ==
  << "i", "n", "s", "u", "f", "f", "i", "c", "i", "e", "n", "t" >>

\* 'already processed'
AlreadyProcessedWords ==
  << "a", "l", "r", "e", "a", "d", "y", " ", "p", "r", "o", "c", "e", "s",
     "s", "e", "d" >>

\* 'Blockhash not found'
BlockhashNotFound ==
  << "B", "l", "o", "c", "k", "h", "a", "s", "h", " ", "n", "o", "t", " ",
     "f", "o", "u", "n", "d" >>

\* 'block height exceeded'
BlockHeightExceeded ==
  << "b", "l", "o", "c", "k", " ", "h", "e", "i", "g", "h", "t", " ", "e",
     "x", "c", "e", "e", "d", "e", "d" >>

\* 'AlreadyProcessed'
AlreadyProcessed ==
  << "A", "l", "r", "e", "a", "d", "y", "P", "r", "o", "c", "e", "s", "s",
     "e", "d" >>

\* 'already been processed'
AlreadyBeenProcessed ==
  << "a", "l", "r", "e", "a", "d", "y", " ", "b", "e", "e", "n", " ", "p",
     "r", "o", "c", "e", "s", "s", "e", "d" >>

\* 'Blockhash expired - transaction cannot land'
BlockhashExpired ==
  << "B", "l", "o", "c", "k", "h", "a", "s", "h", " ", "e", "x", "p", "i",
     "r", "e", "d", " ", "-", " ", "t", "r", "a", "n", "s", "a", "c", "t",
     "i", "o", "n", " ", "c", "a", "n", "n", "o", "t", " ", "l", "a", "n",
     "d" >>

\* 'Max retries exceeded'
MaxRetriesExceeded ==
  << "M", "a", "x", " ", "r", "e", "t", "r", "i", "e", "s", " ", "e", "x",
     "c", "e", "e", "d", "e", "d" >>

\* JSON.stringify(err) of the TransactionError InsufficientFundsForFee
ErrInsufficientFunds ==
  << "\"", "I", "n", "s", "u", "f", "f", "i", "c", "i", "e", "n", "t", "F",
     "u", "n", "d", "s", "F", "o", "r", "F", "e", "e", "\"" >>

\* JSON.stringify(err) of the TransactionError AlreadyProcessed
ErrAlreadyProcessed ==
  << "\"", "A", "l", "r", "e", "a", "d", "y", "P", "r", "o", "c", "e", "s",
     "s", "e", "d", "\"" >>

\* JSON.stringify(err) of a custom program error
ErrCustom ==
  << "{", "\"", "I", "n", "s", "t", "r", "u", "c", "t", "i", "o", "n", "E",
     "r", "r", "o", "r", "\"", ":", "[", "0", ",", "{", "\"", "C", "u", "s",
     "t", "o", "m", "\"", ":", "1", "}", "]", "}" >>

\* an instruction error whose text holds 'insufficient'
ErrInsufficientData ==
  << "{", "\"", "I", "n", "s", "t", "r", "u", "c", "t", "i", "o", "n", "E",
     "r", "r", "o", "r", "\"", ":", "[", "0", ",", "{", "\"", "B", "o", "r",
     "s", "h", "I", "o", "E", "r", "r", "o", "r", "\"", ":", "\"", "i", "n",
     "s", "u", "f", "f", "i", "c", "i", "e", "n", "t", " ", "d", "a", "t",
     "a", "\"", "}", "]", "}" >>

\* an instruction error whose text holds 'already processed'
ErrProcessedBefore ==
  << "{", "\"", "I", "n", "s", "t", "r", "u", "c", "t", "i", "o", "n", "E",
     "r", "r", "o", "r", "\"", ":", "[", "0", ",", "{", "\"", "B", "o", "r",
     "s", "h", "I", "o", "E", "r", "r", "o", "r", "\"", ":", "\"", "a", "l",
     "r", "e", "a", "d", "y", " ", "p", "r", "o", "c", "e", "s", "s", "e",
     "d", "\"", "}", "]", "}" >>

\* The on-chain errors a status poll shows (status.value.err, as JSON text).
ChainErrors ==
  { ErrInsufficientFunds, ErrAlreadyProcessed, ErrCustom, ErrInsufficientData,
    ErrProcessedBefore }

\* the RPC error for a duplicate submission
MsgAlreadyBeenProcessed ==
  << "T", "h", "i", "s", " ", "t", "r", "a", "n", "s", "a", "c", "t", "i",
     "o", "n", " ", "h", "a", "s", " ", "a", "l", "r", "e", "a", "d", "y",
     " ", "b", "e", "e", "n", " ", "p", "r", "o", "c", "e", "s", "s", "e",
     "d" >>

\* a network error
MsgFetchFailed ==
  << "f", "e", "t", "c", "h", " ", "f", "a", "i", "l", "e", "d" >>

\* The messages sendRawTransaction or getSignatureStatus may throw.
ThrownMessages ==
  { BlockhashNotFound, BlockHeightExceeded, AlreadyProcessed,
    MsgAlreadyBeenProcessed, MsgFetchFailed }

\* A test of the on-chain error that finds none permanent.
NeverPermanent(lastError) == FALSE

\* errStr.includes('insufficient') || errStr.includes('already processed'),
\* with errStr = lastError.toLowerCase(): the on-chain error is permanent.
IsPermanent(lastError) ==
  LET errStr == ToLowerCase(lastError) IN
  Includes(errStr, Insufficient) \/ Includes(errStr, AlreadyProcessedWords)

\* msg.includes('Blockhash not found') || msg.includes('block height exceeded')
IsBlockhashExpired(msg) ==
  Includes(msg, BlockhashNotFound) \/ Includes(msg, BlockHeightExceeded)

\* msg.includes('AlreadyProcessed') || msg.includes('already been processed')
IsAlreadyProcessed(msg) ==
  Includes(msg, AlreadyProcessed) \/ Includes(msg, AlreadyBeenProcessed)

\* What sendRawTransaction does: it returns the payload's signature or throws.
SendOutcomes ==
  { [threw |-> FALSE, msg |-> NoText] } \cup
  { [threw |-> TRUE, msg |-> m] : m \in ThrownMessages }

\* What getSignatureStatus does: it throws; or status.value is null
\* ("absent"), carries an err, or has confirmationStatus 'processed' or
\* 'confirmed' / 'finalized' (written "confirmed").
PollOutcomes ==
  { [kind |-> k, text |-> NoText] : k \in {"absent", "processed", "confirmed"} }
    \cup { [kind |-> "err", text |-> e] : e \in ChainErrors }
    \cup { [kind |-> "threw", text |-> m] : m \in ThrownMessages }

NoBackoffResult ==
  [ success |-> FALSE, signature |-> NULL, error |-> NoText, attempts |-> 0 ]

\* Delays are kept in ticks of which 2^MaxRetries make a millisecond, so that
\* `delay * 1.5`, which JavaScript computes in floating point, stays exact
\* over the sleeps of one call.
TicksPerMs == 2 ^ MaxRetries

\* The call's parameters (maxRetries, initialDelayMs as initialDelay,
\* maxDelayMs as maxDelay) and locals (delay, attempts, lastSignature,
\* lastError), how it stands ("loop", "returned", or "threw" when the promise
\* rejects) and the value returned; and, of the work done: the
\* sendRawTransaction calls made, the backoff sleeps taken and their lengths
\* in order, and for the latest attempt the status its last poll showed
\* ("none" without a poll), the on-chain error its status poll showed, the
\* message it caught and whether its catch polled the status again.
BackoffCall(maxRetries, initialDelayMs, maxDelayMs) ==
  [ maxRetries |-> maxRetries, maxDelay |-> maxDelayMs * TicksPerMs,
    initialDelay |-> initialDelayMs * TicksPerMs,
    delay |-> initialDelayMs * TicksPerMs, attempts |-> 0,
    lastSignature |-> NULL, lastError |-> NoText, pc |-> "loop",
    result |-> NoBackoffResult, sends |-> 0, waits |-> 0, sleeps |-> << >>,
    seen |-> "none", polled |-> NoText, caught |-> NoText,
    repolled |-> FALSE ]

NoBackoff == BackoffCall(0, DEFAULT_INITIAL_DELAY_MS, DEFAULT_MAX_DELAY_MS)

\* The calls of startMonitoring issued in MonitorSpec.
Starts == 1 .. MaxStarts

\* The module's isMonitoring and monitoringInterval (the timer of call k is
\* timer k); the timers setInterval has created and clearInterval has not
\* cleared; whether the key of the system wallet is configured; where each
\* call of startMonitoring stands; and, of the history: whether
\* stopMonitoring has run with no step of startMonitoring after it, and the
\* timer callbacks begun since the latest stopMonitoring.
MonitoringState(keySet) ==
  [ isMonitoring |-> FALSE, monitoringInterval |-> NULL, intervals |-> {},
    keySet |-> keySet, call |-> [k \in Starts |-> "none"],
    stopped |-> FALSE, polled |-> 0 ]

NoMonitoring == MonitoringState(TRUE)

\* A loop test that lets one attempt more through (<= for <).
LoopOneMore(st) == st.attempts <= st.maxRetries

\* while (attempts < maxRetries)
LoopGoesOn(st) == st.attempts < st.maxRetries

\* return { success, signature, error, attempts };
BackoffReturn(st, success, signature, error) ==
  [st EXCEPT !.pc = "returned",
             !.result = [ success |-> success, signature |-> signature,
                          error |-> error, attempts |-> st.attempts ]]

\* A next delay with no ceiling.
NextDelayUncapped(delay, maxDelay) == (delay * 3) \div 2

\* Math.min(delay * 1.5, maxDelayMs)
NextDelay(delay, maxDelay) == Min((delay * 3) \div 2, maxDelay)

\* await sleep(delay); delay = Math.min(delay * 1.5, maxDelayMs): the end of
\* an iteration that did not return.
BackoffWait(st) ==
  [st EXCEPT !.waits = @ + 1,
             !.sleeps = Append(@, st.delay),
             !.delay = NextDelay(st.delay, st.maxDelay)]

\* if (status.value) { if (status.value.err) {...} else if (confirmed) {...} }
\* after a send that returned `signature`.
BackoffPolled(st, signature, poll) ==
  LET shown == [st EXCEPT !.seen = poll.kind] IN
  IF poll.kind = "err"
    THEN LET seen == [shown EXCEPT !.lastError = poll.text,
                                   !.polled = poll.text] IN
         IF IsPermanent(poll.text)
           THEN BackoffReturn(seen, FALSE, signature, poll.text)
           ELSE BackoffWait(seen)
  ELSE IF poll.kind = "confirmed"
    THEN BackoffReturn(shown, TRUE, signature, NoText)
  ELSE BackoffWait(shown)

\* catch (err): an expired blockhash returns the failure; an already
\* processed payload is looked up by lastSignature, when there is one (the
\* lookup may itself throw, out of the function), and returns success when
\* status.value && !status.value.err; everything else goes on to the backoff.
BackoffCaught(st, msg, repoll) ==
  LET caught == [st EXCEPT !.lastError = msg, !.caught = msg] IN
  IF IsBlockhashExpired(msg)
    THEN BackoffReturn(caught, FALSE, caught.lastSignature, BlockhashExpired)
  ELSE IF IsAlreadyProcessed(msg) /\ caught.lastSignature # NULL
    THEN LET again == [caught EXCEPT !.repolled = TRUE,
                                     !.seen = IF repoll.kind = "threw"
                                                THEN "none" ELSE repoll.kind] IN
         IF repoll.kind = "threw" THEN [again EXCEPT !.pc = "threw"]
         ELSE IF repoll.kind \in {"processed", "confirmed"}
           THEN BackoffReturn(again, TRUE, again.lastSignature, NoText)
         ELSE BackoffWait(again)
  ELSE BackoffWait(caught)

\* One iteration of the while loop: attempts++, sendRawTransaction (the
\* payload's signature is written 1), the status poll, and the return or the
\* backoff.
BackoffAttempt(st, send, poll, repoll) ==
  LET begun == [st EXCEPT !.attempts = @ + 1, !.sends = @ + 1,
                          !.seen = "none", !.polled = NoText,
                          !.caught = NoText, !.repolled = FALSE] IN
  IF send.threw THEN BackoffCaught(begun, send.msg, repoll)
  ELSE LET sent == [begun EXCEPT !.lastSignature = 1] IN
       IF poll.kind = "threw" THEN BackoffCaught(sent, poll.text, repoll)
       ELSE BackoffPolled(sent, 1, poll)

\* The return after the loop:
\* { success: false, signature: lastSignature,
\*   error: lastError || 'Max retries exceeded', attempts }.
BackoffExhausted(st) ==
  BackoffReturn(st, FALSE, st.lastSignature,
                IF st.lastError = NoText THEN MaxRetriesExceeded ELSE st.lastError)

\* ------------------------------------------------- sequential submission
\* submitSequentialTransactions(signedTransactions) of nonce.ts. A payload is
\* given by what submitWithExponentialBackoff makes of it: "confirmed",
\* "rejected" (a permanent on-chain error or an expired blockhash, reported
\* with the signature sent) or "exhausted" (no attempt got a signature).
\* Payloads are numbered from 0 as in the code; the signature of payload i is
\* written i.

SubmitOutcomes == {"confirmed", "rejected", "exhausted"}

\* { success, signature } of submitWithExponentialBackoff for payload i.
BackoffResult(i, outcome) ==
  [ success |-> outcome = "confirmed",
    signature |-> IF outcome = "exhausted" THEN NULL ELSE i ]

NoResult ==
  [ done |-> FALSE, success |-> FALSE, signatures |-> << >>, failedIndex |-> NULL ]

\* onProgress?.(i, total, status): one report to the caller's callback.
Report(i, status) == [ index |-> i, status |-> status ]

\* The call's locals: the payloads, the loop index i, the signatures pushed,
\* the payloads submitted so far (in order), the reports made to onProgress
\* (in order) and the value returned.
SubmitCall(payloads) ==
  [ payloads |-> payloads, i |-> 0, signatures |-> << >>, sent |-> << >>,
    progress |-> << >>, result |-> NoResult ]

NoSubmit == SubmitCall(<< >>)

\* A loop body that goes on to the next payload after a failure.
SubmitOneAndGoOn(st) ==
  LET r == BackoffResult(st.i, st.payloads[st.i + 1]) IN
  [st EXCEPT !.sent = Append(@, st.i),
             !.i = @ + 1,
             !.progress = @ \o << Report(st.i, "pending"),
                                  Report(st.i, IF r.success /\ r.signature # NULL
                                                 THEN "confirmed" ELSE "failed") >>,
             !.signatures = IF r.success /\ r.signature # NULL
                              THEN Append(@, r.signature) ELSE @]

\* One iteration of the for loop: report 'pending',
\* await submitWithExponentialBackoff(txBuffer), then push the signature and
\* report 'confirmed', or report 'failed' and
\* return { success: false, failedIndex: i }.
SubmitOne(st) ==
  LET r == BackoffResult(st.i, st.payloads[st.i + 1]) IN
  IF r.success /\ r.signature # NULL
    THEN [st EXCEPT !.sent = Append(@, st.i),
                    !.i = @ + 1,
                    !.progress = @ \o << Report(st.i, "pending"),
                                         Report(st.i, "confirmed") >>,
                    !.signatures = Append(@, r.signature)]
    ELSE [st EXCEPT !.sent = Append(@, st.i),
                    !.progress = @ \o << Report(st.i, "pending"),
                                         Report(st.i, "failed") >>,
                    !.result = [ done |-> TRUE, success |-> FALSE,
                                 signatures |-> st.signatures,
                                 failedIndex |-> st.i ]]

\* The return after the loop: { success: true, signatures, failedIndex: null }.
SubmitAll(st) ==
  [st EXCEPT !.result = [ done |-> TRUE, success |-> TRUE,
                          signatures |-> st.signatures, failedIndex |-> NULL ]]

\* ------------------------------------------------------------------ chains

\* The locals of one run of processIncomingTransaction, with what it has
\* called, what has landed on chain, and the error it gave markForRetry.
NoAttempt ==
  [ cur |-> NULL, resumed |-> FALSE, resumeStep |-> "check_pool",
    trendingToken |-> "none", needsPoolCreation |-> FALSE, solBalance |-> 0,
    swapAmount |-> 0,
    calls |-> {}, landed |-> {}, marks |-> 0, error |-> "", outcome |-> "none" ]

IdleChain ==
  [ pc |-> "idle", kind |-> "none", sigs |-> << >>, batch |-> << >>,
    retry |-> << >>, at |-> NoAttempt ]

\* The body shared by the start-up pass and the interval callback begins with
\* checkForIncomingTransactions().
Launched(kind) == [IdleChain EXCEPT !.pc = "mon_list", !.kind = kind]

\* startMonitoring runs a first pass at once; startAutoTraderV2 only sets the
\* interval.
StartedChains(v) ==
  [c \in Chains |-> IF v = "V1" /\ c = 1 THEN Launched("startup") ELSE IdleChain]

Init ==
  /\ variant \in {"V1", "V2"}
  /\ feed = Feed(variant)
  /\ dbAvailable \in BOOLEAN
  /\ ledger = << >>
  /\ now = 0
  /\ processedSignatures = {}
  /\ chain = StartedChains(variant)
  /\ emitted = [s \in Sigs |-> 0]
  /\ handed = {}
  /\ markCalls = [s \in LedgerSigs |-> 0]
  /\ submit = NoSubmit
  /\ backoff = NoBackoff
  /\ monitoring = NoMonitoring
  /\ fetched = [s \in Sigs |-> 0]

\* ---------------------------------------------------------------- scheduler

\* setInterval(async () => {...}, 10000): the timer fires whether or not an
\* earlier callback (or the start-up pass) has settled.
Tick(c) ==
  /\ chain[c].pc = "idle"
  /\ \A d \in Chains : d < c => chain[d].pc # "idle"
  /\ chain' = [chain EXCEPT ![c] = Launched("tick")]
  /\ UNCHANGED << variant, feed, dbAvailable, ledger, now, processedSignatures,
                  emitted, handed, markCalls, submit, backoff, monitoring, fetched >>

\* The process dies and is started again: memory is lost, the ledger is kept.
Restart ==
  /\ chain' = StartedChains(variant)
  /\ processedSignatures' = {}
  /\ emitted' = [s \in Sigs |-> 0]
  /\ fetched' = [s \in Sigs |-> 0]
  /\ UNCHANGED << variant, feed, dbAvailable, ledger, now, handed, markCalls, submit, backoff, monitoring >>

AdvanceClock ==
  /\ now < MaxClock * RETRY_BASE_DELAY_MS
  /\ now' = now + RETRY_BASE_DELAY_MS
  /\ UNCHANGED << variant, feed, dbAvailable, ledger, processedSignatures, chain,
                  emitted, handed, markCalls, submit, backoff, monitoring, fetched >>

\* ------------------------------------------------------------------ monitor

\* The head of `for (const sig of signatures)`: signatures already in
\* processedSignatures are passed over (`continue`) without an await.
RECURSIVE SkipSeen(_, _)
SkipSeen(sigs, seen) ==
  IF sigs # << >> /\ Head(sigs) \in seen THEN SkipSeen(Tail(sigs), seen) ELSE sigs

\* processIncomingTransaction(tx) up to its first await, the insert.
StartAttempt(ch, sig, resumed, step) ==
  [ch EXCEPT !.at = [NoAttempt EXCEPT !.cur = sig, !.resumed = resumed,
                                      !.resumeStep = step],
             !.pc = "p_insert"]

\* for (const tx of transactions) await processIncomingTransaction(tx);
\* then (V1 only) await processRetryQueue().
NextInBatch(ch) ==
  IF ch.batch # << >>
    THEN StartAttempt([ch EXCEPT !.batch = Tail(ch.batch)], Head(ch.batch),
                      FALSE, "check_pool")
  ELSE IF variant = "V1" THEN [ch EXCEPT !.pc = "rq_select", !.at = NoAttempt]
  ELSE IdleChain

\* The loop goes on with the signatures left, or the pass returns its batch.
MonContinue(ch, rest, seen) ==
  LET left == SkipSeen(rest, seen) IN
  IF left = << >> THEN NextInBatch([ch EXCEPT !.sigs = << >>])
  ELSE [ch EXCEPT !.sigs = left, !.pc = "mon_db"]

\* catch (error) { return []; }
MonFailed(ch) == NextInBatch([ch EXCEPT !.sigs = << >>, !.batch = << >>])

\* await connection.getSignaturesForAddress(...): the list, or a network error.
MonList(c) ==
  /\ chain[c].pc = "mon_list"
  /\ \/ chain' = [chain EXCEPT ![c] = MonContinue(@, Signatures(feed), processedSignatures)]
     \/ chain' = [chain EXCEPT ![c] = MonFailed(@)]
  /\ UNCHANGED << variant, feed, dbAvailable, ledger, now, processedSignatures,
                  emitted, handed, markCalls, submit, backoff, monitoring, fetched >>

\* const alreadyProcessed = await isTransactionProcessed(sig.signature);
MonDb(c) ==
  /\ chain[c].pc = "mon_db"
  /\ LET sig == Head(chain[c].sigs) IN
     IF isTransactionProcessed(dbAvailable, ledger, sig)
       THEN /\ processedSignatures' = processedSignatures \cup {sig}
            /\ chain' = [chain EXCEPT ![c] =
                 MonContinue(@, Tail(@.sigs), processedSignatures')]
       ELSE /\ chain' = [chain EXCEPT ![c] = [@ EXCEPT !.pc = "mon_tx"]]
            /\ UNCHANGED processedSignatures
  /\ UNCHANGED << variant, feed, dbAvailable, ledger, now, emitted, handed, markCalls, submit, backoff, monitoring, fetched >>

\* await connection.getTransaction(...), then the balance test. No
\* transaction, no meta or the watched address not among the keys: `continue`,
\* nothing is added. At or above the minimum with a sender: the transfer is
\* pushed and its signature added to processedSignatures; at or above without
\* a sender: neither; below: the signature is added only. A network error
\* abandons the pass with an empty batch.
MonTx(c) ==
  /\ chain[c].pc = "mon_tx"
  /\ LET sig == Head(chain[c].sigs)
         tx == TxOf(feed, sig) IN
     \/ /\ tx.balanceChange = NULL
        /\ fetched' = [fetched EXCEPT ![sig] = Min(@ + 1, MaxFetches)]
        /\ chain' = [chain EXCEPT ![c] =
             MonContinue(@, Tail(@.sigs), processedSignatures)]
        /\ UNCHANGED << processedSignatures, emitted >>
     \/ /\ tx.balanceChange # NULL
        /\ ReachesMinimum(variant, tx.balanceChange)
        /\ tx.sender
        /\ fetched' = [fetched EXCEPT ![sig] = Min(@ + 1, MaxFetches)]
        /\ processedSignatures' = processedSignatures \cup {sig}
        /\ emitted' = [emitted EXCEPT ![sig] = @ + 1]
        /\ chain' = [chain EXCEPT ![c] =
             MonContinue([@ EXCEPT !.batch = Append(@, sig)], Tail(@.sigs),
                         processedSignatures')]
     \/ /\ tx.balanceChange # NULL
        /\ ReachesMinimum(variant, tx.balanceChange)
        /\ ~tx.sender
        /\ fetched' = [fetched EXCEPT ![sig] = Min(@ + 1, MaxFetches)]
        /\ chain' = [chain EXCEPT ![c] =
             MonContinue(@, Tail(@.sigs), processedSignatures)]
        /\ UNCHANGED << processedSignatures, emitted >>
     \/ /\ tx.balanceChange # NULL
        /\ ~ReachesMinimum(variant, tx.balanceChange)
        /\ fetched' = [fetched EXCEPT ![sig] = Min(@ + 1, MaxFetches)]
        /\ processedSignatures' = processedSignatures \cup {sig}
        /\ chain' = [chain EXCEPT ![c] =
             MonContinue(@, Tail(@.sigs), processedSignatures')]
        /\ UNCHANGED emitted
     \/ /\ chain' = [chain EXCEPT ![c] = MonFailed(@)]
        /\ UNCHANGED << processedSignatures, emitted, fetched >>
  /\ UNCHANGED << variant, feed, dbAvailable, ledger, now, handed, markCalls, submit, backoff, monitoring >>

\* ----------------------------------------------------------------- workflow
\* Each action is one ledger operation of processIncomingTransaction together
\* with the network calls that precede it; the network calls change no shared
\* state, so the ledger operation is where the step takes effect.

\* The attempt's locals after the calls `made` and the landing of `lands`.
Did(ch, made, lands) ==
  [ch EXCEPT !.at = [@ EXCEPT !.calls = @ \cup made, !.landed = @ \cup lands]]

\* await updateProcessedIncoming(tx.signature, updates), and on to `next`.
Advance(c, made, lands, updates, next) ==
  /\ ledger' = updateProcessedIncoming(dbAvailable, ledger, chain[c].at.cur, updates)
  /\ chain' = [chain EXCEPT ![c] = [Did(@, made, lands) EXCEPT !.pc = next]]

\* await markForRetry(tx.signature, error): from the early returns and from
\* the catch alike, and processIncomingTransaction returns.
FailWith(c, at, made, lands, error) ==
  /\ ledger' = markForRetry(dbAvailable, ledger, at.cur, now)
  /\ chain' = [chain EXCEPT ![c] =
       [@ EXCEPT !.pc = "p_return",
                 !.at = [at EXCEPT !.calls = @ \cup made,
                                   !.landed = @ \cup lands,
                                   !.outcome = "marked",
                                   !.error = error,
                                   !.marks = @ + 1]]]

Fail(c, made, lands, error) == FailWith(c, chain[c].at, made, lands, error)

\* await insertProcessedIncoming({... status: 'processing'}), before the try.
PInsert(c) ==
  /\ chain[c].pc = "p_insert"
  /\ LET r == insertProcessedIncoming(dbAvailable, ledger, chain[c].at.cur, now) IN
     /\ ledger' = r.ledger
     /\ IF r.threw
          THEN /\ chain' = [chain EXCEPT ![c] =
                    [@ EXCEPT !.pc = "p_throw", !.at = [@ EXCEPT !.outcome = "threw"]]]
               /\ UNCHANGED handed
          ELSE /\ chain' = [chain EXCEPT ![c] =
                    [@ EXCEPT !.pc = IF variant = "V1" THEN "p_prepare"
                                                       ELSE "q_prepare"]]
               /\ handed' = handed \cup {chain[c].at.cur}
  /\ UNCHANGED << variant, feed, dbAvailable, now, processedSignatures, emitted, markCalls, submit, backoff, monitoring, fetched >>

\* A budget that sets no reserve aside for the creation of a pool.
NoReserve(needsPoolCreation) == 0

\* const POOL_CREATION_RESERVE = needsPoolCreation ? 30_000_000 : 0;
PoolCreationReserve(needsPoolCreation) ==
  IF needsPoolCreation THEN POOL_CREATION_RESERVE ELSE 0

\* solBalance - POOL_CREATION_RESERVE - 5_000_000
AvailableForSwaps(solBalance, needsPoolCreation) ==
  solBalance - PoolCreationReserve(needsPoolCreation) - SWAP_FEE_RESERVE

\* Math.floor(availableForSwaps * 0.475), for availableForSwaps >= 0 (the
\* product is taken in two parts to stay within TLC's integers; the double
\* product rounds to the same integer part, its distance from an integer
\* being a multiple of 1/40).
SwapAmount(available) ==
  (available \div 1000) * 475 + ((available % 1000) * 475) \div 1000

\* connection.getBalance(wallet.publicKey): the wallet's whole balance, at
\* and just below the least that passes the budget test with and without
\* the reserve.
SolBalances ==
  { SWAP_FEE_RESERVE + MIN_AVAILABLE_FOR_SWAPS - 1,
    SWAP_FEE_RESERVE + MIN_AVAILABLE_FOR_SWAPS,
    POOL_CREATION_RESERVE + SWAP_FEE_RESERVE + MIN_AVAILABLE_FOR_SWAPS - 1,
    POOL_CREATION_RESERVE + SWAP_FEE_RESERVE + MIN_AVAILABLE_FOR_SWAPS }

\* getTopTrendingMemecoin(): no token, PROOF V3 itself, or another mint.
TrendingTokens == {"none", "PROOF_V3", "other"}

\* A test that finds no token to be PROOF V3.
NeverSelfPair(token) == FALSE

\* trendingToken.address === PROOF_V3_MINT
IsSelfPair(token) == token = "PROOF_V3"

\* A budget test that lets every budget through.
BudgetNeverTooSmall(availableForSwaps) == FALSE

\* if (availableForSwaps < 1_000_000)
BudgetTooSmall(availableForSwaps) == availableForSwaps < MIN_AVAILABLE_FOR_SWAPS

\* getTopTrendingMemecoin (none: markForRetry and return), the self-pairing
\* test (the same mint as PROOF V3: markForRetry and return), findPool,
\* getBalance (either may throw, to the catch) and the budget test (too
\* little: markForRetry and return), then
\* updateProcessedIncoming(sig, { currentStep: 'swap_proof' }).
PPrepare(c) ==
  /\ chain[c].pc = "p_prepare"
  /\ \E trendingToken \in TrendingTokens :
     LET at == [chain[c].at EXCEPT !.trendingToken = trendingToken] IN
     IF trendingToken = "none"
       THEN FailWith(c, at, {"trending"}, {},
                     "No trending token available from Birdeye")
     ELSE IF IsSelfPair(trendingToken)
       THEN FailWith(c, at, {"trending"}, {}, "Trending token is same as PROOF V3")
     ELSE
       \/ FailWith(c, at, {"trending", "find_pool"}, {}, "thrown")
       \/ \E exists \in BOOLEAN :
            LET needsPoolCreation == ~exists
                found == [at EXCEPT !.needsPoolCreation = needsPoolCreation]
                made == {"trending", "find_pool", "get_balance"} IN
            \/ FailWith(c, found, made, {}, "thrown")
            \/ \E solBalance \in SolBalances :
                 LET availableForSwaps ==
                       AvailableForSwaps(solBalance, needsPoolCreation)
                     funded == [found EXCEPT !.solBalance = solBalance] IN
                 IF BudgetTooSmall(availableForSwaps)
                   THEN FailWith(c, funded, made, {}, "Insufficient SOL for swaps")
                   ELSE /\ ledger' = updateProcessedIncoming(dbAvailable, ledger,
                                        at.cur, [currentStep |-> "swap_proof"])
                        /\ chain' = [chain EXCEPT ![c] =
                             [@ EXCEPT
                                !.pc = "p_swap1",
                                !.at = [funded EXCEPT
                                          !.calls = @ \cup made,
                                          !.swapAmount =
                                            SwapAmount(availableForSwaps)]]]
  /\ UNCHANGED << variant, feed, dbAvailable, now, processedSignatures, emitted, handed, markCalls, submit, backoff, monitoring, fetched >>

\* One swap: quote, build, sendTransaction, confirmTransaction. A failed quote
\* or build and a throwing send or confirm reach the catch. The value of
\* confirmTransaction is not read, so a swap rejected on-chain (lands = {})
\* goes on like a confirmed one.
Swap(c, q, b, s, what, updates, next) ==
  \/ \E made \in {{q}, {q, b}, {q, b, s}} : Fail(c, made, {}, "thrown")
  \/ \E lands \in {{}, {what}} : Advance(c, {q, b, s}, lands, updates, next)

\* Step 1, then updateProcessedIncoming(sig, { proofSwapSignature }) and
\* updateProcessedIncoming(sig, { currentStep: 'swap_trending' }).
PSwap1(c) ==
  /\ chain[c].pc = "p_swap1"
  /\ Swap(c, "proof_quote", "proof_build", "proof_submit", "proof",
          [proofSwapSignature |-> TRUE, currentStep |-> "swap_trending"],
          "p_swap2")
  /\ UNCHANGED << variant, feed, dbAvailable, now, processedSignatures, emitted, handed, markCalls, submit, backoff, monitoring, fetched >>

\* Step 2, then updateProcessedIncoming(sig, { trendingSwapSignature, ... }).
PSwap2(c) ==
  /\ chain[c].pc = "p_swap2"
  /\ Swap(c, "trending_quote", "trending_build", "trending_submit", "trending",
          [trendingSwapSignature |-> TRUE], "p_balances")
  /\ UNCHANGED << variant, feed, dbAvailable, now, processedSignatures, emitted, handed, markCalls, submit, backoff, monitoring, fetched >>

\* Step 3: the two getTokenBalance reads (a zero balance throws), then
\* updateProcessedIncoming(sig, { currentStep: 'create_pool' }).
PBalances(c) ==
  /\ chain[c].pc = "p_balances"
  /\ \/ Fail(c, {"token_balances"}, {}, "thrown")
     \/ Advance(c, {"token_balances"}, {}, [currentStep |-> "create_pool"],
                "p_atomic")
  /\ UNCHANGED << variant, feed, dbAvailable, now, processedSignatures, emitted, handed, markCalls, submit, backoff, monitoring, fetched >>

\* A branch that joins a pool whether or not one exists.
AlwaysJoin(needsPoolCreation) == "build_join"

\* if (needsPoolCreation) buildAtomicPoolCreationTransaction(...) else
\* buildAtomicLPTransaction(...)
AtomicBuilder(needsPoolCreation) ==
  IF needsPoolCreation THEN "build_create" ELSE "build_join"

\* Step 4: the atomic payload is built and submitted (a failed build or
\* submission: markForRetry and return), then
\* updateProcessedIncoming(sig, { status: 'completed', ..., completedAt }).
PAtomic(c) ==
  /\ chain[c].pc = "p_atomic"
  /\ LET builder == AtomicBuilder(chain[c].at.needsPoolCreation) IN
     \/ Fail(c, {builder}, {}, "Atomic LP failed")
     \/ Fail(c, {builder, "lp_submit"}, {}, "Atomic tx failed")
     \/ /\ ledger' = updateProcessedIncoming(dbAvailable, ledger, chain[c].at.cur,
                       [status |-> "completed", completedAt |-> TRUE])
        /\ chain' = [chain EXCEPT ![c] =
             [Did(@, {builder, "lp_submit"}, {"lp"}) EXCEPT
                !.pc = "p_return", !.at = [@ EXCEPT !.outcome = "completed"]]]
  /\ UNCHANGED << variant, feed, dbAvailable, now, processedSignatures, emitted, handed, markCalls, submit, backoff, monitoring, fetched >>

\* -------------------------------------------------------------- V2 workflow

\* getLeadingPool() (none: markForRetry and return, ahead of the try), then
\* updateProcessedIncoming(sig, { currentStep: 'swap_proof' }).
QPrepare(c) ==
  /\ chain[c].pc = "q_prepare"
  /\ \/ Fail(c, {}, {}, "No leading pool available from tracker")
     \/ Advance(c, {}, {}, [currentStep |-> "swap_proof"], "q_swap1")
  /\ UNCHANGED << variant, feed, dbAvailable, now, processedSignatures, emitted, handed, markCalls, submit, backoff, monitoring, fetched >>

\* Step 1, then updateProcessedIncoming(sig, { currentStep: 'swap_rfreestacc' });
\* V2 writes no swap signature.
QSwap1(c) ==
  /\ chain[c].pc = "q_swap1"
  /\ Swap(c, "proof_quote", "proof_build", "proof_submit", "proof",
          [currentStep |-> "swap_rfreestacc"], "q_swap2")
  /\ UNCHANGED << variant, feed, dbAvailable, now, processedSignatures, emitted, handed, markCalls, submit, backoff, monitoring, fetched >>

\* Step 2, then updateProcessedIncoming(sig, { currentStep: 'swap_leading' }).
QSwap2(c) ==
  /\ chain[c].pc = "q_swap2"
  /\ Swap(c, "rfree_quote", "rfree_build", "rfree_submit", "rfreestacc",
          [currentStep |-> "swap_leading"], "q_swap3")
  /\ UNCHANGED << variant, feed, dbAvailable, now, processedSignatures, emitted, handed, markCalls, submit, backoff, monitoring, fetched >>

\* Step 3, then updateProcessedIncoming(sig, { currentStep: 'add_liquidity' }).
QSwap3(c) ==
  /\ chain[c].pc = "q_swap3"
  /\ Swap(c, "leading_quote", "leading_build", "leading_submit", "leading",
          [currentStep |-> "add_liquidity"], "q_liquidity")
  /\ UNCHANGED << variant, feed, dbAvailable, now, processedSignatures, emitted, handed, markCalls, submit, backoff, monitoring, fetched >>

\* Step 4: the balance test, the pool lookup and executeLiquidity (each
\* failure: markForRetry and return), then
\* updateProcessedIncoming(sig, { currentStep: 'burn_tokens' }).
QLiquidity(c) ==
  /\ chain[c].pc = "q_liquidity"
  /\ \/ \E made \in {{}, {"add_liquidity"}} : Fail(c, made, {}, "thrown")
     \/ Advance(c, {"add_liquidity"}, {"liquidity"},
                [currentStep |-> "burn_tokens"], "q_transfer")
  /\ UNCHANGED << variant, feed, dbAvailable, now, processedSignatures, emitted, handed, markCalls, submit, backoff, monitoring, fetched >>

\* Steps 5 and 6 collect the burn and transfer instructions;
\* updateProcessedIncoming(sig, { currentStep: 'transfer_lp' }).
QTransfer(c) ==
  /\ chain[c].pc = "q_transfer"
  /\ Advance(c, {}, {}, [currentStep |-> "transfer_lp"], "q_settle")
  /\ UNCHANGED << variant, feed, dbAvailable, now, processedSignatures, emitted, handed, markCalls, submit, backoff, monitoring, fetched >>

\* The burn + transfer payload is sent when there is an instruction (a
\* throwing send or confirm reaches the catch; the confirmation's value is not
\* read), then updateProcessedIncoming(sig, { status: 'completed', ... }).
QSettle(c) ==
  /\ chain[c].pc = "q_settle"
  /\ \/ Fail(c, {"settle_submit"}, {}, "thrown")
     \/ \E made \in {{}, {"settle_submit"}} :
        \E lands \in {{}} \cup (IF made = {} THEN {} ELSE {{"lp_transfer"}}) :
          /\ ledger' = updateProcessedIncoming(dbAvailable, ledger,
                         chain[c].at.cur,
                         [status |-> "completed", completedAt |-> TRUE])
          /\ chain' = [chain EXCEPT ![c] =
               [Did(@, made, lands) EXCEPT
                  !.pc = "p_return", !.at = [@ EXCEPT !.outcome = "completed"]]]
  /\ UNCHANGED << variant, feed, dbAvailable, now, processedSignatures, emitted, handed, markCalls, submit, backoff, monitoring, fetched >>

\* ------------------------------------------------------------- retry sweep

\* for (const record of retryTransactions): a record whose nextRetryAt, as
\* selected, is still ahead is passed over; the next one is resumed.
NotYet(rec, t) == rec.nextRetryAt # NULL /\ rec.nextRetryAt > t

RECURSIVE SkipNotYet(_, _)
SkipNotYet(recs, t) ==
  IF recs # << >> /\ NotYet(Head(recs), t) THEN SkipNotYet(Tail(recs), t) ELSE recs

NextInSweep(ch, recs, t) ==
  LET left == SkipNotYet(recs, t) IN
  IF left = << >> THEN IdleChain
  ELSE [ch EXCEPT !.retry = left, !.pc = "rq_update", !.at = NoAttempt]

\* const retryTransactions = await getTransactionsForRetry(5);
RqSelect(c) ==
  /\ chain[c].pc = "rq_select"
  /\ chain' = [chain EXCEPT ![c] =
       NextInSweep(@, getTransactionsForRetry(dbAvailable, ledger, now,
                                              RETRY_BATCH_LIMIT), now)]
  /\ UNCHANGED << variant, feed, dbAvailable, ledger, now, processedSignatures,
                  emitted, handed, markCalls, submit, backoff, monitoring, fetched >>

\* await updateProcessedIncoming(sig, { status: 'processing', lastRetryAt });
\* then processIncomingTransaction(tx) for the record.
RqUpdate(c) ==
  /\ chain[c].pc = "rq_update"
  /\ LET record == Head(chain[c].retry) IN
     /\ ledger' = updateProcessedIncoming(dbAvailable, ledger,
                    record.incomingSignature, [status |-> "processing"])
     /\ chain' = [chain EXCEPT ![c] =
          StartAttempt([@ EXCEPT !.retry = Tail(@)], record.incomingSignature,
                       TRUE, record.currentStep)]
  /\ UNCHANGED << variant, feed, dbAvailable, now, processedSignatures, emitted, handed, markCalls, submit, backoff, monitoring, fetched >>

\* processIncomingTransaction returns: the caller's loop goes on.
PReturn(c) ==
  /\ chain[c].pc = "p_return"
  /\ chain' = [chain EXCEPT ![c] =
       IF @.at.resumed THEN NextInSweep(@, @.retry, now) ELSE NextInBatch(@)]
  /\ UNCHANGED << variant, feed, dbAvailable, ledger, now, processedSignatures,
                  emitted, handed, markCalls, submit, backoff, monitoring, fetched >>

\* A callback without a catch: its promise rejects and nothing settles it.
CallbackRejects(ch) == [ch EXCEPT !.pc = "rejected"]

\* catch (error) { console.error('[MONITOR] Error in monitoring loop:', error); }
\* of the interval callback: the callback settles and its activation is over.
CallbackCatch(ch) == IdleChain

\* processIncomingTransaction rejects: the catch of processRetryQueue or of the
\* interval callback ends the activation; the start-up pass has no catch and
\* startMonitoring rejects.
PThrow(c) ==
  /\ chain[c].pc = "p_throw"
  /\ chain' = [chain EXCEPT ![c] =
       IF @.kind = "tick" THEN CallbackCatch(@) ELSE IdleChain]
  /\ UNCHANGED << variant, feed, dbAvailable, ledger, now, processedSignatures,
                  emitted, handed, markCalls, submit, backoff, monitoring, fetched >>

\* ------------------------------------------------------------ specification

Next ==
  \/ \E c \in Chains :
       \/ Tick(c)
       \/ MonList(c) \/ MonDb(c) \/ MonTx(c)
       \/ PInsert(c) \/ PPrepare(c) \/ PSwap1(c) \/ PSwap2(c) \/ PBalances(c)
       \/ PAtomic(c) \/ PReturn(c) \/ PThrow(c)
       \/ QPrepare(c) \/ QSwap1(c) \/ QSwap2(c) \/ QSwap3(c) \/ QLiquidity(c)
       \/ QTransfer(c) \/ QSettle(c)
       \/ RqSelect(c) \/ RqUpdate(c)
  \/ Restart
  \/ AdvanceClock

Spec == Init /\ [][Next]_vars

\* ------------------------------------------------- two transfers, in turn
\* The same program with two transactions in the history, each at the minimum
\* or one lamport below it, with or without a sender, and activations that do
\* not overlap: the timer fires when the earlier activation has settled.

\* NULL: getTransaction shows no transaction, no meta, or no key that is the
\* watched address, so that no balance change is computed.
BatchChanges(v) == { MinLamports(v) - 1, MinLamports(v), NULL }

\* Signature 2 is the newer transaction: it heads the history.
BatchFeeds(v) ==
  { << Transfer(2, c2, s2), Transfer(1, c1, s1) >> :
      c1 \in BatchChanges(v), c2 \in BatchChanges(v),
      s1 \in BOOLEAN, s2 \in BOOLEAN }

BatchInit ==
  /\ variant \in {"V1", "V2"}
  /\ feed \in BatchFeeds(variant)
  /\ dbAvailable \in BOOLEAN
  /\ ledger = << >>
  /\ now = 0
  /\ processedSignatures = {}
  /\ chain = StartedChains(variant)
  /\ emitted = [s \in Sigs |-> 0]
  /\ handed = {}
  /\ markCalls = [s \in LedgerSigs |-> 0]
  /\ submit = NoSubmit
  /\ backoff = NoBackoff
  /\ monitoring = NoMonitoring
  /\ fetched = [s \in Sigs |-> 0]

SeqTick(c) ==
  /\ \A d \in Chains : chain[d].pc = "idle"
  /\ Tick(c)

BatchNext ==
  \/ \E c \in Chains :
       \/ SeqTick(c)
       \/ MonList(c) \/ MonDb(c) \/ MonTx(c)
       \/ PInsert(c) \/ PPrepare(c) \/ PSwap1(c) \/ PSwap2(c) \/ PBalances(c)
       \/ PAtomic(c) \/ PReturn(c) \/ PThrow(c)
       \/ QPrepare(c) \/ QSwap1(c) \/ QSwap2(c) \/ QSwap3(c) \/ QLiquidity(c)
       \/ QTransfer(c) \/ QSettle(c)
       \/ RqSelect(c) \/ RqUpdate(c)
  \/ Restart
  \/ AdvanceClock

BatchSpec == BatchInit /\ [][BatchNext]_vars

\* ---------------------------------------------- sequential submission alone
\* One call of submitSequentialTransactions for every sequence of up to
\* MaxPayloads payloads.

PayloadSeqs == UNION { [1..n -> SubmitOutcomes] : n \in 0..MaxPayloads }

SubmitInit ==
  /\ variant = "V1"
  /\ feed = Feed(variant)
  /\ dbAvailable = TRUE
  /\ ledger = << >>
  /\ now = 0
  /\ processedSignatures = {}
  /\ chain = [c \in Chains |-> IdleChain]
  /\ emitted = [s \in Sigs |-> 0]
  /\ handed = {}
  /\ markCalls = [s \in LedgerSigs |-> 0]
  /\ submit \in { SubmitCall(p) : p \in PayloadSeqs }
  /\ backoff = NoBackoff
  /\ monitoring = NoMonitoring
  /\ fetched = [s \in Sigs |-> 0]

SubmitStep ==
  /\ ~submit.result.done
  /\ submit.i < Len(submit.payloads)
  /\ submit' = SubmitOne(submit)
  /\ UNCHANGED << variant, feed, dbAvailable, ledger, now, processedSignatures,
                  chain, emitted, handed, markCalls, backoff, monitoring, fetched >>

SubmitReturn ==
  /\ ~submit.result.done
  /\ submit.i = Len(submit.payloads)
  /\ submit' = SubmitAll(submit)
  /\ UNCHANGED << variant, feed, dbAvailable, ledger, now, processedSignatures,
                  chain, emitted, handed, markCalls, backoff, monitoring, fetched >>

SubmitNext == SubmitStep \/ SubmitReturn

SubmitSpec == SubmitInit /\ [][SubmitNext]_vars

\* ----------------------------------------------- BackoffSpec: nonce.ts alone
\* One call of submitWithExponentialBackoff with maxRetries from 0 to
\* MaxRetries, under every answer of the RPC node.

\* The initialDelayMs given: the default, and one above the larger ceiling.
InitialDelays ==
  { DEFAULT_INITIAL_DELAY_MS, DEFAULT_MAX_DELAY_MS + DEFAULT_INITIAL_DELAY_MS }

\* The maxDelayMs given: the default, and one the default delay reaches in
\* two steps.
MaxDelays == { 2 * DEFAULT_INITIAL_DELAY_MS, DEFAULT_MAX_DELAY_MS }

BackoffInit ==
  /\ variant = "V1"
  /\ feed = Feed(variant)
  /\ dbAvailable = TRUE
  /\ ledger = << >>
  /\ now = 0
  /\ processedSignatures = {}
  /\ chain = [c \in Chains |-> IdleChain]
  /\ emitted = [s \in Sigs |-> 0]
  /\ handed = {}
  /\ markCalls = [s \in LedgerSigs |-> 0]
  /\ submit = NoSubmit
  /\ backoff \in { BackoffCall(n, initialDelayMs, maxDelayMs) :
                     n \in 0 .. MaxRetries, initialDelayMs \in InitialDelays,
                     maxDelayMs \in MaxDelays }
  /\ monitoring = NoMonitoring
  /\ fetched = [s \in Sigs |-> 0]

BackoffStep ==
  /\ backoff.pc = "loop"
  /\ LoopGoesOn(backoff)
  /\ \E send \in SendOutcomes : \E poll \in PollOutcomes :
     \E repoll \in PollOutcomes :
       backoff' = BackoffAttempt(backoff, send, poll, repoll)
  /\ UNCHANGED << variant, feed, dbAvailable, ledger, now, processedSignatures,
                  chain, emitted, handed, markCalls, submit, monitoring, fetched >>

BackoffGiveUp ==
  /\ backoff.pc = "loop"
  /\ ~LoopGoesOn(backoff)
  /\ backoff' = BackoffExhausted(backoff)
  /\ UNCHANGED << variant, feed, dbAvailable, ledger, now, processedSignatures,
                  chain, emitted, handed, markCalls, submit, monitoring, fetched >>

BackoffNext == BackoffStep \/ BackoffGiveUp

\* Every await of the call settles.
BackoffSpec == BackoffInit /\ [][BackoffNext]_vars /\ WF_vars(BackoffNext)

\* ------------------------------------------------------------- ledger alone
\* The ledger operations driven directly, one call at a time, on the records
\* of LedgerSigs: the behaviour of db.ts whatever its caller does.

\* insertProcessedIncoming(record): a duplicate is rejected, the table is kept.
LInsert(s) ==
  /\ ledger' = insertProcessedIncoming(dbAvailable, ledger, s, now).ledger
  /\ UNCHANGED << variant, feed, dbAvailable, now, processedSignatures, chain,
                  emitted, handed, markCalls, submit, backoff, monitoring, fetched >>

\* markForRetry(signature, error) on an inserted record.
LMark(s) ==
  /\ HasRow(dbAvailable, ledger, s)
  /\ markCalls[s] < MaxMarks
  /\ ledger' = markForRetry(dbAvailable, ledger, s, now)
  /\ markCalls' = [markCalls EXCEPT ![s] = @ + 1]
  /\ UNCHANGED << variant, feed, dbAvailable, now, processedSignatures, chain,
                  emitted, handed, submit, backoff, monitoring, fetched >>

LedgerNext ==
  \/ \E s \in LedgerSigs : LInsert(s) \/ LMark(s)
  \/ AdvanceClock

LedgerSpec == Init /\ [][LedgerNext]_vars

\* ------------------------------------------------- starting and stopping
\* startMonitoring and stopMonitoring alone: MaxStarts calls of
\* startMonitoring, issued at any moments, stopMonitoring called at any
\* moment, and the timers firing.

MonitorInit ==
  /\ variant = "V1"
  /\ feed = << >>
  /\ dbAvailable \in BOOLEAN
  /\ ledger = << >>
  /\ now = 0
  /\ processedSignatures = {}
  /\ chain = [c \in Chains |-> IdleChain]
  /\ emitted = [s \in Sigs |-> 0]
  /\ handed = {}
  /\ markCalls = [s \in LedgerSigs |-> 0]
  /\ submit = NoSubmit
  /\ backoff = NoBackoff
  /\ monitoring \in { MonitoringState(keySet) : keySet \in BOOLEAN }
  /\ fetched = [s \in Sigs |-> 0]

\* startMonitoring() up to its first await: `if (isMonitoring) return;` and
\* the call of getOrCreateSystemWallet(), which throws without the key.
StartCall(k) ==
  /\ monitoring.call[k] = "none"
  /\ monitoring' =
       [monitoring EXCEPT
          !.stopped = FALSE,
          !.call[k] = IF monitoring.isMonitoring THEN "returned"
                      ELSE IF monitoring.keySet THEN "wallet"
                      ELSE "threw"]
  /\ UNCHANGED << variant, feed, dbAvailable, ledger, now, processedSignatures,
                  chain, emitted, handed, markCalls, submit, backoff, fetched >>

\* After `await getOrCreateSystemWallet()`: isMonitoring = true;
\* monitoringInterval = setInterval(...); and the start-up pass begins.
StartResume(k) ==
  /\ monitoring.call[k] = "wallet"
  /\ monitoring' =
       [monitoring EXCEPT
          !.stopped = FALSE,
          !.isMonitoring = TRUE,
          !.monitoringInterval = k,
          !.intervals = @ \cup {k},
          !.call[k] = "pass"]
  /\ UNCHANGED << variant, feed, dbAvailable, ledger, now, processedSignatures,
                  chain, emitted, handed, markCalls, submit, backoff, fetched >>

\* The start-up pass ends: startMonitoring returns, or rejects with what the
\* pass threw (it runs outside any try).
StartReturn(k) ==
  /\ monitoring.call[k] = "pass"
  /\ \E end \in {"returned", "threw"} :
       monitoring' = [monitoring EXCEPT !.call[k] = end]
  /\ UNCHANGED << variant, feed, dbAvailable, ledger, now, processedSignatures,
                  chain, emitted, handed, markCalls, submit, backoff, fetched >>

\* stopMonitoring(): clearInterval(monitoringInterval) if it is set,
\* monitoringInterval = null, isMonitoring = false.
StopMonitoring ==
  /\ monitoring' =
       [monitoring EXCEPT
          !.intervals = @ \ {monitoring.monitoringInterval},
          !.monitoringInterval = NULL,
          !.isMonitoring = FALSE,
          !.stopped = TRUE,
          !.polled = 0]
  /\ UNCHANGED << variant, feed, dbAvailable, ledger, now, processedSignatures,
                  chain, emitted, handed, markCalls, submit, backoff, fetched >>

\* A timer that has not been cleared fires: its callback begins a pass.
IntervalFires(i) ==
  /\ i \in monitoring.intervals
  /\ monitoring.polled < MaxPolls
  /\ monitoring' = [monitoring EXCEPT !.polled = @ + 1]
  /\ UNCHANGED << variant, feed, dbAvailable, ledger, now, processedSignatures,
                  chain, emitted, handed, markCalls, submit, backoff, fetched >>

MonitorNext ==
  \/ \E k \in Starts : StartCall(k) \/ StartResume(k) \/ StartReturn(k)
  \/ StopMonitoring
  \/ \E i \in Starts : IntervalFires(i)

MonitorSpec == MonitorInit /\ [][MonitorNext]_vars

\* ------------------------------------------------------------------ claims

\* The positions inside processIncomingTransaction: from its call until it
\* returns or throws.
AttemptPcs ==
  { "p_insert", "p_prepare", "p_swap1", "p_swap2", "p_balances", "p_atomic",
    "q_prepare", "q_swap1", "q_swap2", "q_swap3", "q_liquidity", "q_transfer",
    "q_settle" }

InAttempt(c) == chain[c].pc \in AttemptPcs

\* The attempt of chain c has ended: processIncomingTransaction returned or threw.
AttemptEnded(c) == chain[c].pc \in {"p_return", "p_throw"}

\* C1: at no time are two executions of processIncomingTransaction for the
\* same incomingSignature in progress together.
C1_OneAttemptPerSignature ==
  \A c, d \in Chains :
    (c # d /\ InAttempt(c) /\ InAttempt(d)) => chain[c].at.cur # chain[d].at.cur

\* C2: a signature the workflow has taken in (its insert returned) has
\* exactly one ledger record, and no signature ever has more than one.
C2_ExactlyOneRecord ==
  \A s \in Sigs :
    /\ Cardinality(RowsOf(ledger, s)) <= 1
    /\ s \in handed => Cardinality(RowsOf(ledger, s)) = 1

\* C2, amended: no signature ever has more than one ledger record, and a
\* signature the workflow has taken in has exactly one provided the store is
\* available; without a store the insert returns without creating a record.
C2_OneRecordWhenStoreAvailable ==
  \A s \in Sigs :
    /\ Cardinality(RowsOf(ledger, s)) <= 1
    /\ (dbAvailable /\ s \in handed) => Cardinality(RowsOf(ledger, s)) = 1

\* C2's case: a second insert of a recorded signature was made and rejected.
C2_Witness ==
  \E c \in Chains :
    /\ chain[c].pc = "p_throw"
    /\ chain[c].at.cur \in handed
    /\ Cardinality(RowsOf(ledger, chain[c].at.cur)) = 1

\* C3: an attempt that resumes a record whose currentStep is swap_trending
\* makes none of the primary swap's calls and, by its end, has invoked the
\* secondary swap.
C3_ResumeAtSwapTrending ==
  \A c \in Chains :
    (chain[c].at.resumed /\ chain[c].at.resumeStep = "swap_trending") =>
      /\ chain[c].at.calls \cap {"proof_quote", "proof_build", "proof_submit"} = {}
      /\ AttemptEnded(c) => "trending_quote" \in chain[c].at.calls

\* C4: no failure escapes processIncomingTransaction, and an attempt that
\* ends without completing has called markForRetry exactly once.
C4_FailureMarksOnce ==
  \A c \in Chains :
    /\ chain[c].pc # "p_throw"
    /\ (chain[c].pc = "p_return" /\ chain[c].at.outcome # "completed") =>
         chain[c].at.marks = 1

\* C5: on a record inserted with retryCount 0, the first four markForRetry
\* calls leave status 'processing' and the fifth sets 'failed' (where later
\* calls leave it); retryCount is the number of calls.
C5_FailedOnFifthMark ==
  \A s \in LedgerSigs :
    HasRow(dbAvailable, ledger, s) =>
      LET record == getProcessedIncoming(ledger, s) IN
      /\ record.retryCount = markCalls[s]
      /\ markCalls[s] \in 0..4 => record.status = "processing"
      /\ markCalls[s] >= 5 => record.status = "failed"

\* C5's case: the fifth call has been made and the record is 'failed'.
C5_Witness ==
  \E s \in LedgerSigs :
    /\ HasRow(dbAvailable, ledger, s)
    /\ markCalls[s] = 5
    /\ getProcessedIncoming(ledger, s).status = "failed"

\* C6: over a record's lifetime, retries included, every write leaves
\* currentStep where it was or moves it forward in the schema's step order.
C6_CurrentStepNeverDecreases ==
  [][\A i \in DOMAIN ledger :
       /\ i \in DOMAIN ledger'
       /\ StepIndex(ledger'[i].currentStep) >= StepIndex(ledger[i].currentStep)]_vars

\* C6's case: a record that reached create_pool was marked for retry and a
\* sweep has started a further attempt on it.
C6_Witness ==
  \E c \in Chains :
    /\ chain[c].pc = "p_throw"
    /\ chain[c].at.resumed
    /\ HasRow(dbAvailable, ledger, chain[c].at.cur)
    /\ LET record == getProcessedIncoming(ledger, chain[c].at.cur) IN
       record.currentStep = "create_pool" /\ record.retryCount >= 1

\* C7: one activation (start-up pass or tick) has finished before the next
\* begins, so at most one is in progress.
C7_OneActivationAtATime ==
  Cardinality({ c \in Chains : chain[c].pc # "idle" }) <= 1

\* C8: within one process lifetime a signature is emitted in at most one
\* batch returned by checkForIncomingTransactions.
C8_EmittedAtMostOnce ==
  \A s \in Sigs : emitted[s] <= 1

\* C9: the operations of an attempt succeed or fail together: an attempt
\* that ends without completing has left no confirmed operation on chain.
C9_AllOrNothing ==
  \A c \in Chains :
    (AttemptEnded(c) /\ chain[c].at.outcome # "completed") =>
      chain[c].at.landed = {}

\* C10: 'failed' and 'completed' are absorbing: no later operation changes
\* the status of a record that holds one of them.
C10_TerminalStatusAbsorbing ==
  [][\A i \in DOMAIN ledger :
       ledger[i].status \in {"failed", "completed"} =>
         /\ i \in DOMAIN ledger'
         /\ ledger'[i].status = ledger[i].status]_vars

\* C11: a record with status 'completed' has completedAt set and currentStep
\* equal to the terminal marker 'done', in both variants.
C11_CompletedIsDone ==
  \A i \in DOMAIN ledger :
    ledger[i].status = "completed" =>
      ledger[i].completedAt /\ ledger[i].currentStep = "done"

\* C12: a failure while processing one transfer leaves no transfer of the
\* same batch or sweep unprocessed: when an attempt ends by rejecting, which
\* ends the activation, no transfer of the batch and no record of the sweep
\* is still waiting.
C12_FailureLeavesNoneBehind ==
  \A c \in Chains :
    chain[c].pc = "p_throw" =>
      /\ chain[c].batch = << >>
      /\ SkipNotYet(chain[c].retry, now) = << >>

\* The payloads 0..n-1 in order.
FirstPayloads(n) == [j \in 1..n |-> j - 1]

FailsAt(p, j) == p[j + 1] # "confirmed"

Abandoned(c) ==
  /\ chain'[c] = MonFailed(chain[c])
  /\ processedSignatures' = processedSignatures
  /\ emitted' = emitted

\* C14: when the monitor has fetched a transaction whose balance change is
\* exactly the minimum and a sender is found, it emits the transfer (and
\* marks the signature seen); when the change is one lamport below the
\* minimum it emits nothing and adds the signature to the seen set. (A
\* fetch that fails abandons the pass instead.)
C14_ThresholdIsInclusive ==
  [][\A c \in Chains :
       MonTx(c) =>
         LET sig == Head(chain[c].sigs)
             tx == TxOf(feed, sig) IN
         /\ (tx.balanceChange = MinLamports(variant) /\ tx.sender) =>
              \/ /\ emitted'[sig] = emitted[sig] + 1
                 /\ sig \in processedSignatures'
              \/ Abandoned(c)
         /\ tx.balanceChange = MinLamports(variant) - 1 =>
              \/ /\ emitted' = emitted
                 /\ sig \in processedSignatures'
              \/ Abandoned(c)]_vars

\* C14's case: a transfer one lamport below the minimum is marked seen, was
\* not emitted and has no record, and a transfer of exactly the minimum was
\* emitted.
C14_Witness ==
  \E s1, s2 \in Sigs :
    /\ s1 \in processedSignatures /\ s2 \in processedSignatures
    /\ TxOf(feed, s1).balanceChange = MinLamports(variant) - 1
    /\ emitted[s1] = 0
    /\ s1 \notin handed
    /\ TxOf(feed, s2).balanceChange = MinLamports(variant)
    /\ emitted[s2] = 1

\* C15: an attempt whose trending token is PROOF V3 itself has called
\* markForRetry, once, with the error 'Trending token is same as PROOF V3',
\* and has returned with no call made past the token discovery: no pool
\* lookup, quote, payload build or submission, and nothing landed.
C15_SelfPairFailsFirst ==
  \A c \in Chains :
    chain[c].at.trendingToken = "PROOF_V3" =>
      /\ chain[c].pc = "p_return"
      /\ chain[c].at.outcome = "marked"
      /\ chain[c].at.marks = 1
      /\ chain[c].at.error = "Trending token is same as PROOF V3"
      /\ chain[c].at.calls = {"trending"}
      /\ chain[c].at.landed = {}

\* C15's case: an attempt found PROOF V3 trending and its record is marked.
C15_Witness ==
  \E c \in Chains :
    /\ chain[c].at.trendingToken = "PROOF_V3"
    /\ chain[c].pc = "p_return"
    /\ HasRow(dbAvailable, ledger, chain[c].at.cur)
    /\ getProcessedIncoming(ledger, chain[c].at.cur).retryCount = 1

\* The attempt of chain c got as far as building the liquidity payload.
ReachedBuild(c) ==
  \/ chain[c].at.outcome = "completed"
  \/ chain[c].at.error \in {"Atomic LP failed", "Atomic tx failed"}

\* C16: once the pool check has answered: when no pool exists the swap
\* budget is what is left of the balance after the pool-creation reserve
\* (and the fee reserve), and the builder invoked is the create-pool builder,
\* never the join-pool builder; when a pool exists no reserve is subtracted
\* and only the join-pool builder is invoked.
C16_CreateBranchWhenNoPool ==
  \A c \in Chains :
    LET at == chain[c].at IN
    (variant = "V1" /\ "get_balance" \in at.calls) =>
      IF at.needsPoolCreation
        THEN /\ "build_join" \notin at.calls
             /\ ReachedBuild(c) => "build_create" \in at.calls
             /\ at.swapAmount > 0 =>
                  at.swapAmount =
                    SwapAmount(at.solBalance - POOL_CREATION_RESERVE
                                             - SWAP_FEE_RESERVE)
        ELSE /\ "build_create" \notin at.calls
             /\ ReachedBuild(c) => "build_join" \in at.calls
             /\ at.swapAmount > 0 =>
                  at.swapAmount = SwapAmount(at.solBalance - SWAP_FEE_RESERVE)

\* C16's case: an attempt that found no pool completed through the
\* create-pool builder on a budget reduced by the reserve.
C16_Witness ==
  \E c \in Chains :
    /\ chain[c].at.needsPoolCreation
    /\ chain[c].at.outcome = "completed"
    /\ "build_create" \in chain[c].at.calls
    /\ chain[c].at.solBalance =
         POOL_CREATION_RESERVE + SWAP_FEE_RESERVE + MIN_AVAILABLE_FOR_SWAPS
    /\ chain[c].at.swapAmount = SwapAmount(MIN_AVAILABLE_FOR_SWAPS)

\* C19: the SOL an attempt commits to its two swaps (2 x swapAmount) never
\* exceeds the inbound amount of the transfer it processes.
C19_SwapsFundedByTransfer ==
  \A c \in Chains :
    chain[c].at.swapAmount > 0 =>
      2 * chain[c].at.swapAmount <= TxOf(feed, chain[c].at.cur).balanceChange

\* C17: a sweep resumes its due records oldest first: the record about to be
\* resumed, and the record of a resumed attempt, is no newer (by createdAt)
\* than any record still waiting in the same sweep.
C17_SweepOldestFirst ==
  \A c \in Chains :
    /\ chain[c].pc = "rq_update" =>
         \A j \in DOMAIN chain[c].retry :
           Head(chain[c].retry).createdAt <= chain[c].retry[j].createdAt
    /\ (chain[c].at.resumed /\ HasRow(dbAvailable, ledger, chain[c].at.cur)) =>
         \A j \in DOMAIN chain[c].retry :
           getProcessedIncoming(ledger, chain[c].at.cur).createdAt
             <= chain[c].retry[j].createdAt

\* C17's case: a sweep found two due records and has resumed the older one
\* while the newer one waits.
C17_Witness ==
  \E c \in Chains :
    /\ chain[c].at.resumed
    /\ chain[c].pc = "p_insert"
    /\ Len(chain[c].retry) = 1
    /\ getProcessedIncoming(ledger, chain[c].at.cur).createdAt
         < chain[c].retry[1].createdAt

\* A qualifying transfer: at or above the minimum, with a sender.
Qualifies(sig) ==
  /\ ReachesMinimum(variant, TxOf(feed, sig).balanceChange)
  /\ TxOf(feed, sig).sender

\* The signature's transfer is in a batch still to be processed, is being
\* processed, has been given to the workflow, or is recorded in the ledger.
ReachedWorkflow(sig) ==
  \/ \E c \in Chains :
       \/ \E i \in DOMAIN chain[c].batch : chain[c].batch[i] = sig
       \/ chain[c].at.cur = sig
  \/ sig \in handed
  \/ HasRow(dbAvailable, ledger, sig)

\* C18: a monitor pass that hits a network error leaves no qualifying transfer
\* marked as seen (in processedSignatures) without its having been handed to
\* the workflow, so that a later pass still emits it.
C18_NoneSeenButUnhanded ==
  \A sig \in processedSignatures :
    Qualifies(sig) => ReachedWorkflow(sig)

\* The swap payloads of the two workflows: the call that submits each and the
\* effect it has on chain when it is accepted.
SwapPayloads ==
  { << "proof_submit", "proof" >>, << "trending_submit", "trending" >>,
    << "rfree_submit", "rfreestacc" >>, << "leading_submit", "leading" >> }

\* C20: an attempt whose swap payload was submitted but did not take effect
\* on chain (rejected) has aborted with markForRetry; it is never found at a
\* later step, or completed, with the rejected swap behind it.
C20_RejectedSwapAborts ==
  \A c \in Chains : \A p \in SwapPayloads :
    (p[1] \in chain[c].at.calls /\ p[2] \notin chain[c].at.landed)
      => chain[c].at.outcome = "marked"

\* The on-chain effect that delivers the receipt asset to the sender: the
\* atomic payload (position NFT) in V1, the burn + transfer payload (LP
\* tokens) in V2.
ReceiptDelivery == IF variant = "V1" THEN "lp" ELSE "lp_transfer"

\* C21: an attempt writes status 'completed' only after the payload that
\* delivers the receipt asset to the sender has landed on chain.
C21_CompletedAfterDelivery ==
  \A c \in Chains :
    chain[c].at.outcome = "completed" => ReceiptDelivery \in chain[c].at.landed

\* ------------------------------------------------------------------ liveness

\* One step of activation c: the timer firing, or the await it is at resolving.
Step(c) ==
  \/ Tick(c)
  \/ MonList(c) \/ MonDb(c) \/ MonTx(c)
  \/ PInsert(c) \/ PPrepare(c) \/ PSwap1(c) \/ PSwap2(c) \/ PBalances(c)
  \/ PAtomic(c) \/ PReturn(c) \/ PThrow(c)
  \/ QPrepare(c) \/ QSwap1(c) \/ QSwap2(c) \/ QSwap3(c) \/ QLiquidity(c)
  \/ QTransfer(c) \/ QSettle(c)
  \/ RqSelect(c) \/ RqUpdate(c)

\* The scheduler keeps ticking, every pending await settles and time passes;
\* the process dies and is started again only finitely often.
LiveSpec ==
  /\ Init
  /\ [][Next]_vars
  /\ \A c \in Chains : WF_vars(Step(c))
  /\ WF_vars(AdvanceClock)
  /\ <>[][~Restart]_vars

\* The record of sig is due for the sweep with n failures counted so far.
DueWith(sig, n) ==
  /\ HasRow(dbAvailable, ledger, sig)
  /\ IsDue(getProcessedIncoming(ledger, sig), now)
  /\ getProcessedIncoming(ledger, sig).retryCount = n

\* The record of sig is completed or failed, or counts more than n failures.
SettledOrBeyond(sig, n) ==
  /\ HasRow(dbAvailable, ledger, sig)
  /\ \/ getProcessedIncoming(ledger, sig).status \in {"completed", "failed"}
     \/ getProcessedIncoming(ledger, sig).retryCount > n

\* C22: with the scheduler ticking and the ledger available no record stays
\* retry-pending forever: a record that is due with n failures counted is
\* eventually completed, failed, or retried to its next counted failure (and
\* so, by the 5th, reaches 'completed' or 'failed').
C22_DueRecordSettles ==
  \A sig \in LedgerSigs : \A n \in 0 .. (MAX_RETRY_COUNT - 1) :
    DueWith(sig, n) ~> SettledOrBeyond(sig, n)

\* C23: in either variant an activation (a tick or the start-up pass) ends
\* only from its retry sweep: after the monitor pass and the batch it goes on
\* to select the due records, and returns from there or from a resumed
\* attempt.
C23_EveryTickSweeps ==
  [][ ~Restart =>
        \A c \in Chains :
          (chain[c].pc # "idle" /\ chain'[c].pc = "idle") =>
            (chain[c].pc = "rq_select" \/ chain[c].at.resumed) ]_vars

\* The calls that send a payload to the chain: the swaps, the liquidity
\* payloads and the burn + transfer payload.
Submissions ==
  { p[1] : p \in SwapPayloads } \cup {"lp_submit", "add_liquidity", "settle_submit"}

\* C24: no attempt has sent a swap or liquidity payload for a transfer that
\* has no ledger record: with the ledger unavailable a fresh run stops short
\* of the swap steps.
C24_NoSubmissionWithoutRecord ==
  \A c \in Chains :
    chain[c].at.calls \cap Submissions # {}
      => HasRow(dbAvailable, ledger, chain[c].at.cur)

\* C25: a V1 attempt whose balance read leaves, after the pool-creation
\* reserve and the fee reserve, less than the minimum of 1,000,000 lamports
\* has called markForRetry, once, with 'Insufficient SOL for swaps' and has
\* returned with no swap quote, payload build or submission made and nothing
\* landed.
C25_SmallBudgetFailsFirst ==
  \A c \in Chains :
    LET at == chain[c].at
        reserve == IF at.needsPoolCreation THEN POOL_CREATION_RESERVE ELSE 0 IN
    (/\ variant = "V1"
     /\ at.solBalance \in SolBalances
     /\ at.solBalance - reserve - SWAP_FEE_RESERVE < MIN_AVAILABLE_FOR_SWAPS) =>
      /\ chain[c].pc = "p_return"
      /\ at.outcome = "marked"
      /\ at.marks = 1
      /\ at.error = "Insufficient SOL for swaps"
      /\ at.calls = {"trending", "find_pool", "get_balance"}
      /\ at.landed = {}

\* C25's case: an attempt that needs a pool read a balance one lamport short
\* of the least that funds the swaps, and its record is marked for retry.
C25_Witness ==
  \E c \in Chains :
    /\ chain[c].at.needsPoolCreation
    /\ chain[c].at.solBalance =
         POOL_CREATION_RESERVE + SWAP_FEE_RESERVE + MIN_AVAILABLE_FOR_SWAPS - 1
    /\ chain[c].pc = "p_return"
    /\ HasRow(dbAvailable, ledger, chain[c].at.cur)
    /\ getProcessedIncoming(ledger, chain[c].at.cur).retryCount = 1

\* C26: each markForRetry call sets nextRetryAt to now + min(newRetryCount x
\* 60000, 300000) with newRetryCount the incremented counter; the delay is
\* never above 300000 ms and never below the delay of the call before it.
C26_LinearCappedDelay ==
  [][\A s \in LedgerSigs :
       markCalls'[s] = markCalls[s] + 1 =>
         LET newRetryCount == getProcessedIncoming(ledger, s).retryCount + 1
             delay == getProcessedIncoming(ledger', s).nextRetryAt - now
             linear == newRetryCount * RETRY_BASE_DELAY_MS
             before == (newRetryCount - 1) * RETRY_BASE_DELAY_MS IN
         /\ getProcessedIncoming(ledger', s).retryCount = newRetryCount
         /\ delay = IF linear < RETRY_MAX_DELAY_MS THEN linear
                                                   ELSE RETRY_MAX_DELAY_MS
         /\ delay <= RETRY_MAX_DELAY_MS
         /\ delay >= IF before < RETRY_MAX_DELAY_MS THEN before
                                                    ELSE RETRY_MAX_DELAY_MS]_vars

\* C26's case: a sixth call has been made on a record and its delay is the
\* ceiling, below the linear value.
C26_Witness ==
  \E s \in LedgerSigs :
    /\ HasRow(dbAvailable, ledger, s)
    /\ markCalls[s] = 6
    /\ getProcessedIncoming(ledger, s).retryCount = 6
    /\ getProcessedIncoming(ledger, s).nextRetryAt = now + RETRY_MAX_DELAY_MS

\* C27: in the reports of one submitSequentialTransactions call, 'pending'
\* for a payload after the first comes only after 'confirmed' for the payload
\* before it, a payload is submitted only after its 'pending' report with
\* every earlier payload confirmed, and 'failed' is the last report made.
C27_PendingOnlyAfterConfirmed ==
  LET pr == submit.progress IN
  /\ \A k \in DOMAIN pr :
       /\ (pr[k].status = "pending" /\ pr[k].index > 0) =>
            \E j \in 1 .. (k - 1) : pr[j] = Report(pr[k].index - 1, "confirmed")
       /\ pr[k].status = "failed" => k = Len(pr)
  /\ \A n \in DOMAIN submit.sent :
       /\ \E k \in DOMAIN pr : pr[k] = Report(submit.sent[n], "pending")
       /\ \A m \in 0 .. (submit.sent[n] - 1) :
            \E k \in DOMAIN pr : pr[k] = Report(m, "confirmed")

\* C27's case: a call whose third payload failed after two confirmed ones has
\* returned, with six reports made.
C27_Witness ==
  /\ submit.result.done
  /\ submit.result.failedIndex = 2
  /\ Len(submit.payloads) = 4
  /\ submit.progress =
       << Report(0, "pending"), Report(0, "confirmed"),
          Report(1, "pending"), Report(1, "confirmed"),
          Report(2, "pending"), Report(2, "failed") >>

\* The call of submitWithExponentialBackoff has ended: it returned or threw.
BackoffEnded == backoff.pc \in {"returned", "threw"}

\* C28: submitWithExponentialBackoff ends after at most maxRetries submission
\* attempts: attempts, the submissions made and the attempts value returned
\* never exceed maxRetries, a call all of whose attempts were inconclusive
\* (each ended in the backoff sleep) returns success = false with attempts =
\* maxRetries, and every call ends.
C28_EndsWithinMaxRetries ==
  /\ [](/\ backoff.attempts <= backoff.maxRetries
        /\ backoff.sends <= backoff.maxRetries
        /\ backoff.pc = "returned" =>
             /\ backoff.result.attempts = backoff.attempts
             /\ backoff.result.attempts <= backoff.maxRetries
             /\ backoff.waits = backoff.attempts =>
                  /\ ~backoff.result.success
                  /\ backoff.result.attempts = backoff.maxRetries)
  /\ <>BackoffEnded

\* C28's case: a call given maxRetries = 3 made three inconclusive attempts
\* and has returned.
C28_Witness ==
  /\ backoff.maxRetries = 3
  /\ backoff.pc = "returned"
  /\ backoff.waits = 3
  /\ backoff.result.attempts = 3
  /\ ~backoff.result.success

\* C29: when the status poll of a submitted payload shows an on-chain error
\* whose text contains 'insufficient' or 'already processed', the call has
\* returned success = false with that error and the signature, in that same
\* attempt: no backoff sleep and no further submission followed.
C29_PermanentErrorReturnsAtOnce ==
  (Includes(backoff.polled, Insufficient)
     \/ Includes(backoff.polled, AlreadyProcessedWords)) =>
    /\ backoff.pc = "returned"
    /\ ~backoff.result.success
    /\ backoff.result.error = backoff.polled
    /\ backoff.result.signature = backoff.lastSignature
    /\ backoff.result.attempts = backoff.attempts
    /\ backoff.sends = backoff.attempts
    /\ backoff.waits = backoff.attempts - 1

\* C29's case: the second attempt's poll showed an error holding
\* 'insufficient' and the call returned with a retry still left.
C29_Witness ==
  /\ backoff.polled = ErrInsufficientData
  /\ backoff.pc = "returned"
  /\ backoff.attempts = 2
  /\ backoff.maxRetries = 3
  /\ backoff.result.error = ErrInsufficientData

\* C30: an attempt that caught a 'payload already processed' error, on
\* whichever attempt and the first included, has polled the status of the
\* payload's signature to settle the outcome.
C30_AlreadyProcessedIsPolled ==
  (Includes(backoff.caught, AlreadyProcessed)
     \/ Includes(backoff.caught, AlreadyBeenProcessed)) => backoff.repolled

\* C31: submitWithExponentialBackoff returns success = true only when the
\* status polled for the payload is 'confirmed' or 'finalized' with no
\* on-chain error; never for a payload merely broadcast or only 'processed'.
C31_SuccessOnlyWhenConfirmed ==
  (backoff.pc = "returned" /\ backoff.result.success)
    => backoff.seen = "confirmed"

\* The sleeps a call has taken rise from one to the next by the factor 1.5 up
\* to maxDelayMs, and none is longer than maxDelayMs.
SleepsRiseToCeiling ==
  /\ \A i \in 1 .. Len(backoff.sleeps) : backoff.sleeps[i] <= backoff.maxDelay
  /\ \A i \in 2 .. Len(backoff.sleeps) :
       /\ backoff.sleeps[i - 1] <= backoff.sleeps[i]
       /\ IF 3 * backoff.sleeps[i - 1] <= 2 * backoff.maxDelay
            THEN 2 * backoff.sleeps[i] = 3 * backoff.sleeps[i - 1]
            ELSE backoff.sleeps[i] = backoff.maxDelay

\* C32 as stated: for any initialDelayMs and maxDelayMs, the sleeps between
\* successive attempts of submitWithExponentialBackoff are non-decreasing,
\* each is min(previous x 1.5, maxDelayMs), and none is longer than
\* maxDelayMs.
C32_AnyDelaysRiseToCeiling == SleepsRiseToCeiling

\* C32 amended: when initialDelayMs is not larger than maxDelayMs, the sleeps
\* between successive attempts of submitWithExponentialBackoff are
\* non-decreasing, each is min(previous x 1.5, maxDelayMs), and none is
\* longer than maxDelayMs.
C32_SleepsRiseToCeiling ==
  backoff.initialDelay <= backoff.maxDelay => SleepsRiseToCeiling

\* A call whose third sleep is the first one held down to maxDelayMs.
C32_Witness ==
  /\ backoff.initialDelay <= backoff.maxDelay
  /\ Len(backoff.sleeps) >= 3
  /\ backoff.sleeps[2] < backoff.maxDelay
  /\ backoff.sleeps[3] = backoff.maxDelay

\* C33: getTransactionsForRetry(limit) returns at most limit records, each
\* with the retry-pending status 'processing' and a nextRetryAt that is unset
\* or not later than now; never a record that is completed or failed or whose
\* nextRetryAt lies in the future.
C33_RetrySelectionIsDue ==
  \A limit \in 0 .. RETRY_BATCH_LIMIT :
    LET due == getTransactionsForRetry(dbAvailable, ledger, now, limit) IN
    /\ Len(due) <= limit
    /\ \A i \in DOMAIN due :
         /\ due[i].status = "processing"
         /\ due[i].status \notin {"completed", "failed"}
         /\ (due[i].nextRetryAt = NULL \/ due[i].nextRetryAt <= now)

\* The sweep's selection returns one record and leaves out another that is
\* waiting for a nextRetryAt still in the future.
C33_Witness ==
  /\ Len(getTransactionsForRetry(dbAvailable, ledger, now,
                                 RETRY_BATCH_LIMIT)) = 1
  /\ \E i \in DOMAIN ledger :
       /\ ledger[i].status = "processing"
       /\ ledger[i].nextRetryAt # NULL
       /\ ledger[i].nextRetryAt > now

\* The positions of processIncomingTransaction after its first swap step.
PastFirstSwap ==
  { "p_swap2", "p_balances", "p_atomic",
    "q_swap2", "q_swap3", "q_liquidity", "q_transfer", "q_settle" }

\* C34: in both orchestration variants, once the payload of a swap step is
\* confirmed, its signature is written to the transfer's ledger record before
\* the next step starts (here for the first swap step, the proof swap).
C34_SwapSignatureRecorded ==
  \A c \in Chains :
    ( /\ chain[c].pc \in PastFirstSwap
      /\ "proof" \in chain[c].at.landed
      /\ HasRow(dbAvailable, ledger, chain[c].at.cur) )
      => \A i \in RowsOf(ledger, chain[c].at.cur) : ledger[i].proofSwapSignature

\* C35: however many times startMonitoring is called, calls issued before the
\* first has finished loading the wallet included, at most one polling
\* interval is active at any time, and a single stopMonitoring stops all
\* polling: after it no timer callback begins until startMonitoring runs
\* again.
C35_OneIntervalOneStop ==
  /\ Cardinality(monitoring.intervals) <= 1
  /\ monitoring.stopped => monitoring.polled = 0

\* Activation c is an interval tick in which an exception has been raised and
\* has left processIncomingTransaction.
TickThrew(c) == chain[c].kind = "tick" /\ chain[c].pc = "p_throw"

\* C36: an exception raised inside one interval tick is caught within that
\* tick (the tick's next step ends its activation), and the following timer
\* tick still runs: the timer's first activation, after a tick of it threw,
\* begins a tick again.
C36_TickCatchesItsException ==
  /\ [][ ~Restart =>
           \A c \in Chains :
             (TickThrew(c) /\ chain'[c] # chain[c]) => chain'[c].pc = "idle" ]_vars
  /\ TickThrew(1) ~> (chain[1] = Launched("tick"))

\* A tick of the timer's first activation has thrown, in the variant named.
C36_Witness == TickThrew(1) /\ variant = "V1"

\* C37: when the store is unavailable, insertProcessedIncoming returns
\* normally, without throwing and without creating a record, and the workflow
\* attempt that called it is not aborted by the insert: it goes on to its
\* first step.
C37_InsertSilentWithoutStore ==
  [][ (~Restart /\ ~dbAvailable) =>
        \A c \in Chains :
          (chain[c].pc = "p_insert" /\ chain'[c] # chain[c]) =>
            /\ ledger' = ledger
            /\ ledger' = << >>
            /\ chain'[c].pc \in {"p_prepare", "q_prepare"}
            /\ chain'[c].at.outcome # "threw" ]_vars

\* Without a store an attempt has passed its insert and stands at its first
\* step, and the ledger holds no record.
C37_Witness ==
  /\ ~dbAvailable
  /\ ledger = << >>
  /\ \E c \in Chains :
       /\ chain[c].pc \in {"p_prepare", "q_prepare"}
       /\ chain[c].at.cur \in handed

\* C38: no operation of the monitor, the workflow, the retry sweep or
\* markForRetry deletes a transfer record or changes its incomingSignature,
\* senderAddress or amountLamports after insertion.
C38_RecordsKeptAndKeyed ==
  [][ /\ Len(ledger') >= Len(ledger)
      /\ \A i \in DOMAIN ledger :
           /\ ledger'[i].incomingSignature = ledger[i].incomingSignature
           /\ ledger'[i].senderAddress = ledger[i].senderAddress
           /\ ledger'[i].amountLamports = ledger[i].amountLamports ]_vars

\* A record that the workflow has updated and markForRetry has marked, still
\* bearing the signature, sender and amount it was inserted with.
C38_Witness ==
  \E i \in DOMAIN ledger :
    /\ ledger[i].retryCount > 0
    /\ ledger[i].currentStep # "check_pool"
    /\ ledger[i].incomingSignature = 1
    /\ ledger[i].senderAddress = SenderOf(1)
    /\ ledger[i].amountLamports = AmountOf(1)

\* What getTransaction shows of sig gives the monitor nothing to act on: no
\* transaction, no meta or no key that is the watched address, or a transfer
\* that reaches the minimum and has no identifiable sender.
Unactionable(sig) ==
  LET tx == TxOf(feed, sig) IN
  \/ tx.balanceChange = NULL
  \/ (ReachesMinimum(variant, tx.balanceChange) /\ ~tx.sender)

\* C39: a signature whose transaction is absent, has no meta, does not
\* contain the watched address or has no identifiable sender produces no
\* transfer event and is not retried: its transaction is fetched and
\* evaluated at most once, not again on later monitor passes.
C39_UnactionableFetchedOnce ==
  \A sig \in Sigs :
    ((\E i \in DOMAIN feed : feed[i].signature = sig) /\ Unactionable(sig))
      => (emitted[sig] = 0 /\ fetched[sig] <= 1)

====
